---- MODULE Spec2Model ----
(***************************************************************************)
(* A model of fim.py, the file integrity monitor: the FileIntegrityMonitor *)
(* object, the directory tree it scans, the baseline file it persists and  *)
(* the operations create_baseline, monitor_once and monitor_realtime.      *)
(*                                                                         *)
(* A file name is a sequence of characters, a relative path a sequence of  *)
(* names (its components from the monitored root down to the file).  A     *)
(* Python dict is a sequence of entries with unique keys, in insertion     *)
(* order; the dict of one file's metadata is a function from field names.  *)
(***************************************************************************)
EXTENDS Integers, Sequences, FiniteSets, TLC

VARIABLES
    root,            \* state of the monitored directory itself
    fs,              \* the files below the root: relative path -> file state
    bfile,           \* the baseline file on disk (it lives inside the root)
    ignore_files,    \* self.ignore_files
    baseline,        \* self.baseline
    monitoring,      \* self.monitoring
    pc,              \* position of the running operation, "idle" between calls
    update_baseline, \* argument of the running monitor_realtime
    current_state,   \* result of the latest scan_directory
    changes,         \* Changeset of the latest check_changes
    last,            \* outcome of the latest operation step
    fresh,           \* "saved" while the tree is as create_baseline scanned it
    scan             \* locals of a scan_directory that runs step by step

vars == <<root, fs, bfile, ignore_files, baseline, monitoring, pc,
          update_baseline, current_state, changes, last, fresh, scan>>

-----------------------------------------------------------------------------
(* Names and paths *)

DOT == "."
LogName == <<"f", "i", "m", ".", "l", "o", "g">>
BaselineName == <<"b", ".", "j", "s", "o", "n">>
NameA == <<"a">>
NameT == <<"t">>
NameC == <<"c">>
NameSub == <<"s", "u", "b">>
NameHidden == <<".", "g">>
RecycleBin == <<"$", "R", "E", "C", "Y", "C", "L", "E", ".", "B", "I", "N">>
SystemVolumeInformation == <<"S", "y", "s", "t", "e", "m", " ", "V", "o", "l">>

PathA == <<NameA>>
PathT == <<NameT>>
PathSubT == <<NameSub, NameT>>
PathHiddenC == <<NameHidden, NameC>>
PathLog == <<LogName>>
PathBaseline == <<BaselineName>>

\* The files a tree may hold besides the baseline file, and the order in which
\* os.walk yields them: the files of the root first, then each subdirectory.
FilePaths == {PathA, PathT, PathSubT, PathHiddenC, PathLog}
WalkOrder == <<PathA, PathT, PathLog, PathBaseline, PathHiddenC, PathSubT>>

startswith(name, ch) == Len(name) > 0 /\ name[1] = ch
basename(path) == path[Len(path)]
dirnames(path) == {path[i] : i \in 1..(Len(path) - 1)}

-----------------------------------------------------------------------------
(* File contents, sizes and digests *)

max_file_size == 524288000

\* The number of different small contents a file may have.
NumContents == 2

\* Contents 1..NumContents are small files; content 8 is a file of exactly
\* the size limit and content 9 a file one byte above it.
SmallContents == 1..NumContents
Contents == SmallContents \cup {8, 9}

SizeOf(c) ==
    CASE c = 8 -> max_file_size
      [] c = 9 -> max_file_size + 1
      [] OTHER -> 4 + c

\* hashlib.sha256(...).hexdigest(): one digest per content, never empty.
sha256(c) == 1000 + c

Absent == [exists |-> FALSE, content |-> 0, mode |-> "ok"]
Present(c, m) == [exists |-> TRUE, content |-> c, mode |-> m]
Modes == {"ok", "denied", "ioerror"}

\* os.stat(filepath): the metadata, or the exception it raises.
os_stat(f) ==
    IF f.exists
    THEN [exc |-> "none", st_size |-> SizeOf(f.content),
          st_mtime |-> 2000 + f.content, st_ctime |-> 3000 + f.content]
    ELSE [exc |-> "FileNotFoundError", st_size |-> 0, st_mtime |-> 0, st_ctime |-> 0]

NoHash == 0

calculate_hash_lt(f) ==
    IF ~f.exists THEN NoHash
    ELSE IF SizeOf(f.content) >= max_file_size THEN NoHash
    ELSE IF f.mode = "denied" THEN NoHash
    ELSE IF f.mode = "ioerror" THEN NoHash
    ELSE sha256(f.content)

\* calculate_hash: the digest, or None (NoHash) on any failure.
calculate_hash(f) ==
    IF ~f.exists THEN NoHash                              \* FileNotFoundError
    ELSE IF SizeOf(f.content) > max_file_size THEN NoHash \* too large
    ELSE IF f.mode = "denied" THEN NoHash                 \* PermissionError
    ELSE IF f.mode = "ioerror" THEN NoHash                \* IOError
    ELSE sha256(f.content)

NoInfo == [n \in {} |-> 0]

\* get_file_info: the record of one file, or None (NoInfo).
get_file_info(f) ==
    LET stat_info == os_stat(f)
        file_hash == calculate_hash(f)
    IN  IF stat_info.exc # "none" THEN NoInfo
        ELSE IF file_hash = NoHash THEN NoInfo
        ELSE [hash |-> file_hash, size |-> stat_info.st_size,
              modified |-> stat_info.st_mtime, created |-> stat_info.st_ctime]

-----------------------------------------------------------------------------
(* Python dicts *)

EmptyDict == [isdict |-> TRUE, items |-> <<>>]
Entry(k, v) == [key |-> k, isdict |-> TRUE, info |-> v]

Keys(d) == {d.items[i].key : i \in 1..Len(d.items)}
Has(d, k) == k \in Keys(d)
IndexOf(d, k) == CHOOSE i \in 1..Len(d.items) : d.items[i].key = k
Get(d, k) == d.items[IndexOf(d, k)]

\* d[k] = e: replaces the entry of k in place, or appends it.
DictSet(d, e) ==
    IF Has(d, e.key)
    THEN [d EXCEPT !.items[IndexOf(d, e.key)] = e]
    ELSE [d EXCEPT !.items = Append(@, e)]

-----------------------------------------------------------------------------
(* The baseline file as the scanner sees it, and the scanner *)

NoText == [kind |-> "none", members |-> <<>>]
NoBaselineFile == [exists |-> FALSE, readable |-> TRUE, writable |-> TRUE, text |-> NoText]

\* The baseline file is one more file of the tree while it exists.
BaselineAsFile(b) ==
    IF b.exists
    THEN Present(1 + (Len(b.text.members) % 2), IF b.readable THEN "ok" ELSE "denied")
    ELSE Absent

FileAt(files, b, path) == IF path = PathBaseline THEN BaselineAsFile(b) ELSE files[path]

RootStates == {"ok", "missing", "notdir", "denied"}

validate_directory_noaccess(r) ==
    CASE r = "missing" -> "ValueError"
      [] r = "notdir" -> "ValueError"
      [] OTHER -> "none"

\* _validate_directory: the exception it raises, or "none".
validate_directory(r) ==
    CASE r = "missing" -> "ValueError"
      [] r = "notdir" -> "ValueError"
      [] r = "denied" -> "PermissionError"
      [] OTHER -> "none"

\* os.walk with the pruning of line 152: a file is reached when none of the
\* directories above it is hidden or reserved.
walk_reaches(path) ==
    \A d \in dirnames(path) :
        ~startswith(d, DOT) /\ d \notin {RecycleBin, SystemVolumeInformation}

\* The test of line 157.
skip_file_noignore(filename, baseline_filename, ignore) ==
    startswith(filename, DOT) \/ filename = baseline_filename

skip_file(filename, baseline_filename, ignore) ==
    \/ startswith(filename, DOT)
    \/ filename = baseline_filename
    \/ filename \in ignore

\* The body of the loop over the files, lines 155-175, for one path.
scan_file(files_data, path, f, baseline_filename, ignore) ==
    IF skip_file(basename(path), baseline_filename, ignore) THEN files_data
    ELSE LET file_info == get_file_info(f)
         IN  IF file_info # NoInfo /\ file_info.hash # NoHash
             THEN DictSet(files_data, Entry(path, file_info))
             ELSE files_data

RECURSIVE scan_walk(_, _, _, _, _)
scan_walk(i, files_data, files, b, ignore) ==
    IF i > Len(WalkOrder) THEN files_data
    ELSE LET path == WalkOrder[i]
             f == FileAt(files, b, path)
         IN  scan_walk(i + 1,
                 IF f.exists /\ walk_reaches(path)
                 THEN scan_file(files_data, path, f, BaselineName, ignore)
                 ELSE files_data,
                 files, b, ignore)

\* scan_directory: the mapping relative path -> record.
scan_directory(r, files, b, ignore) ==
    IF validate_directory(r) # "none" THEN EmptyDict
    ELSE scan_walk(1, EmptyDict, files, b, ignore)

-----------------------------------------------------------------------------
(* The persisted form: json.dump and json.load *)

\* The text of a file is the JSON document it holds: an object whose members
\* are written one after the other ("object"), another JSON value ("array"),
\* bytes that are no JSON ("garbage"), or a file that open(..., 'w') has
\* emptied and json.dump has not finished writing ("truncated").
FieldOrder == <<"hash", "size", "modified", "created">>
RequiredKeys == {"hash", "size", "modified", "created"}

RECURSIVE dump_fields(_, _)
dump_fields(info, i) ==
    IF i > Len(FieldOrder) THEN <<>>
    ELSE IF FieldOrder[i] \in DOMAIN info
         THEN <<[name |-> FieldOrder[i], val |-> info[FieldOrder[i]]]>>
              \o dump_fields(info, i + 1)
         ELSE dump_fields(info, i + 1)

dump_entry(e) == [key |-> e.key, isobj |-> e.isdict, fields |-> dump_fields(e.info, 1)]

json_dump_nosize(d) ==
    [kind |-> "object",
     members |-> [i \in 1..Len(d.items) |->
        [key |-> d.items[i].key, isobj |-> d.items[i].isdict,
         fields |-> SelectSeq(dump_fields(d.items[i].info, 1), LAMBDA f : f.name # "size")]]]

\* json.dump(self.baseline, f, indent=2), once it has written everything.
json_dump(d) ==
    [kind |-> "object", members |-> [i \in 1..Len(d.items) |-> dump_entry(d.items[i])]]

\* The dict of one JSON object: a repeated name keeps its last value.
load_fields(fields) ==
    [n \in {fields[i].name : i \in 1..Len(fields)} |->
        fields[CHOOSE i \in 1..Len(fields) :
            /\ fields[i].name = n
            /\ \A j \in (i + 1)..Len(fields) : fields[j].name # n].val]

load_entry(m) ==
    [key |-> m.key, isdict |-> m.isobj,
     info |-> IF m.isobj THEN load_fields(m.fields) ELSE NoInfo]

RECURSIVE load_members(_, _, _)
load_members(members, i, d) ==
    IF i > Len(members) THEN d
    ELSE load_members(members, i + 1, DictSet(d, load_entry(members[i])))

NotADict == [isdict |-> FALSE, items |-> <<>>]

\* json.load(f): the value, or the JSONDecodeError it raises.
json_load(text) ==
    CASE text.kind = "object" ->
            [exc |-> "none", value |-> load_members(text.members, 1, EmptyDict)]
      [] text.kind = "array" -> [exc |-> "none", value |-> NotADict]
      [] OTHER -> [exc |-> "JSONDecodeError", value |-> EmptyDict]

\* len(x) of a parsed value.
PyLen(v) == Len(v.items)

valid_entry_hashonly(e) == e.isdict /\ "hash" \in DOMAIN e.info

\* Lines 255-259 for one entry.
valid_entry(e) == e.isdict /\ RequiredKeys \subseteq DOMAIN e.info

\* load_baseline: what it returns and the value it leaves in self.baseline.
load_baseline(b, old) ==
    IF ~b.exists THEN [ret |-> FALSE, baseline |-> old]
    ELSE IF ~b.readable THEN [ret |-> FALSE, baseline |-> old]
    ELSE LET parsed == json_load(b.text)
         IN  IF parsed.exc # "none" THEN [ret |-> FALSE, baseline |-> old]
             ELSE IF ~parsed.value.isdict THEN [ret |-> FALSE, baseline |-> parsed.value]
             ELSE IF \E i \in 1..Len(parsed.value.items) : ~valid_entry(parsed.value.items[i])
                  THEN [ret |-> FALSE, baseline |-> parsed.value]
                  ELSE [ret |-> TRUE, baseline |-> parsed.value]

-----------------------------------------------------------------------------
(* The comparison of check_changes *)

NoChanges == [modified |-> <<>>, added |-> <<>>, deleted |-> <<>>]

Modified(b, c) ==
    [file |-> b.key, old_hash |-> b.info.hash, new_hash |-> c.info.hash,
     old_size |-> b.info.size, new_size |-> c.info.size]
Added(c) == [file |-> c.key, hash |-> c.info.hash, size |-> c.info.size]

compare_entry_noignore(acc, e, cur, ignore) ==
    IF Has(cur, e.key)
    THEN IF Get(cur, e.key).info.hash # e.info.hash
         THEN [acc EXCEPT !.modified = Append(@, Modified(e, Get(cur, e.key)))]
         ELSE acc
    ELSE [acc EXCEPT !.deleted = Append(@, e.key)]

\* Lines 290-307 for one entry of the baseline.
compare_entry(acc, e, cur, ignore) ==
    IF basename(e.key) \in ignore THEN acc
    ELSE IF Has(cur, e.key)
         THEN IF Get(cur, e.key).info.hash # e.info.hash
              THEN [acc EXCEPT !.modified = Append(@, Modified(e, Get(cur, e.key)))]
              ELSE acc
         ELSE [acc EXCEPT !.deleted = Append(@, e.key)]

RECURSIVE compare_baseline(_, _, _, _, _)
compare_baseline(acc, base, i, cur, ignore) ==
    IF i > Len(base.items) THEN acc
    ELSE compare_baseline(compare_entry(acc, base.items[i], cur, ignore),
                          base, i + 1, cur, ignore)

\* Lines 310-316.
RECURSIVE compare_current(_, _, _, _)
compare_current(acc, base, i, cur) ==
    IF i > Len(cur.items) THEN acc
    ELSE compare_current(
            IF ~Has(base, cur.items[i].key)
            THEN [acc EXCEPT !.added = Append(@, Added(cur.items[i]))]
            ELSE acc,
            base, i + 1, cur)

\* The loops of check_changes raise when self.baseline is no dict or an entry
\* they read has no 'hash' (or no 'size' when the hashes differ).
compare_raises(base, cur, ignore) ==
    \/ ~base.isdict
    \/ \E i \in 1..Len(base.items) :
          LET e == base.items[i]
          IN  /\ basename(e.key) \notin ignore
              /\ Has(cur, e.key)
              /\ \/ "hash" \notin DOMAIN e.info
                 \/ /\ Get(cur, e.key).info.hash # e.info.hash
                    /\ "size" \notin DOMAIN e.info

compare(base, cur, ignore) ==
    compare_current(compare_baseline(NoChanges, base, 1, cur, ignore), base, 1, cur)

\* check_changes: the pair (changes, current_state) it returns.
check_changes(r, files, b, ignore, base) ==
    LET cur == scan_directory(r, files, b, ignore)
    IN  IF compare_raises(base, cur, ignore)
        THEN [changes |-> NoChanges, current_state |-> EmptyDict]
        ELSE [changes |-> compare(base, cur, ignore), current_state |-> cur]

\* generate_alert: whether there is anything to report.
generate_alert(ch) == Len(ch.modified) + Len(ch.added) + Len(ch.deleted) # 0

-----------------------------------------------------------------------------
(* Construction and the values shared by the specifications *)

init_ignore_nolog(user) == user

\* __init__, lines 28-29: the log file is always ignored.
init_ignore(user) == user \cup {LogName}
IgnoreSets == {init_ignore(user) : user \in SUBSET {NameT}}

\* What the latest step of an operation did: the operation, what it returned
\* ("running" while it has not), the exception that ended it, what its
\* load_baseline returned, and whether it scanned and compared.
Outcome(op, ret, exc, loaded, scanned) ==
    [op |-> op, ret |-> ret, exc |-> exc, loaded |-> loaded, scanned |-> scanned]
Constructed == Outcome("__init__", "None", "none", "n/a", FALSE)

NoFiles == [p \in FilePaths |-> Absent]

\* No scan_directory is running step by step: nothing listed, no file open.
\* gone and unlinked record, for each path, at which point of the scan
\* another process removed the file and what the file was then; hashed holds
\* the paths calculate_hash was called for.
NoStat == os_stat(Absent)
NoScan ==
    [dirs |-> <<>>, files |-> <<>>, stat_info |-> NoStat, f |-> Absent,
     files_data |-> EmptyDict, hashed |-> {},
     gone |-> [p \in FilePaths |-> "no"],
     unlinked |-> [p \in FilePaths |-> Absent]]

\* The state __init__ leaves: an empty baseline, not monitoring.
InitObject ==
    /\ baseline = EmptyDict
    /\ monitoring = FALSE
    /\ pc = "idle"
    /\ update_baseline = FALSE
    /\ current_state = EmptyDict
    /\ changes = NoChanges
    /\ last = Constructed
    /\ fresh = "none"
    /\ scan = NoScan

\* The largest dict the specifications of the pure functions draw.
MaxEntries == 2

RecordOf(c) == get_file_info(Present(c, "ok"))
DictKeys == {PathA, PathT, PathSubT}
DictEntries == {Entry(k, RecordOf(c)) : k \in DictKeys, c \in SmallContents}
UniqueKeys(items) == \A i, j \in 1..Len(items) : items[i].key = items[j].key => i = j
Dicts ==
    {[isdict |-> TRUE, items |-> items] :
        items \in {s \in UNION {[1..n -> DictEntries] : n \in 0..MaxEntries} : UniqueKeys(s)}}

\* Baseline files
File(text) == [exists |-> TRUE, readable |-> TRUE, writable |-> TRUE, text |-> text]
Truncated == [kind |-> "truncated", members |-> <<>>]
GarbageText == [kind |-> "garbage", members |-> <<>>]
ArrayText == [kind |-> "array", members |-> <<>>]
\* A baseline that an earlier run saved, when NameT was not ignored.
OldBaselineText ==
    json_dump([isdict |-> TRUE,
               items |-> <<Entry(PathA, RecordOf(1)), Entry(PathSubT, RecordOf(1))>>])
\* A document with an entry that has no 'size', and one with an entry that is
\* no object.
MissingSizeText ==
    [kind |-> "object",
     members |-> <<[key |-> PathA, isobj |-> TRUE,
                    fields |-> <<[name |-> "hash", val |-> sha256(1)],
                                 [name |-> "modified", val |-> 2001],
                                 [name |-> "created", val |-> 3001]>>]>>]
NonObjectEntryText ==
    [kind |-> "object", members |-> <<[key |-> PathA, isobj |-> FALSE, fields |-> <<>>]>>]

InitialBaselineFiles ==
    {NoBaselineFile, File(OldBaselineText), File(MissingSizeText), File(GarbageText)}
TamperedFiles ==
    {NoBaselineFile, File(OldBaselineText), File(MissingSizeText), File(GarbageText),
     File(ArrayText), File(NonObjectEntryText)}
Permissions == {<<TRUE, TRUE>>, <<TRUE, FALSE>>, <<FALSE, FALSE>>}

-----------------------------------------------------------------------------
(* SpecScan: scan_directory applied to every tree *)

PlainStates == {Absent} \cup {Present(c, "ok") : c \in SmallContents}
RichStates == {Absent} \cup {Present(c, m) : c \in Contents, m \in Modes}
Trees == {t \in [FilePaths -> RichStates] : \A p \in FilePaths \ {PathA, PathSubT} : t[p] \in PlainStates}
ExistingBaselineFile ==
    [exists |-> TRUE, readable |-> TRUE, writable |-> TRUE, text |-> json_dump(EmptyDict)]

InitScan ==
    /\ InitObject
    /\ root \in RootStates
    /\ fs \in IF root \in {"ok", "denied"} THEN Trees ELSE {NoFiles}
    /\ bfile \in {NoBaselineFile, ExistingBaselineFile}
    /\ ignore_files \in IgnoreSets

ScanOnce ==
    /\ last.op = "__init__"
    /\ current_state' = scan_directory(root, fs, bfile, ignore_files)
    /\ last' = Outcome("scan_directory", "None", "none", "n/a", TRUE)
    /\ UNCHANGED <<root, fs, bfile, ignore_files, scan, baseline, monitoring, pc,
                   update_baseline, changes, fresh>>

SpecScan == InitScan /\ [][ScanOnce]_vars

-----------------------------------------------------------------------------
(* SpecDiff: the comparison applied to every pair of mappings *)

InitDiff ==
    /\ monitoring = FALSE
    /\ pc = "idle"
    /\ update_baseline = FALSE
    /\ changes = NoChanges
    /\ last = Constructed
    /\ fresh = "none"
    /\ scan = NoScan
    /\ root = "ok"
    /\ fs = NoFiles
    /\ bfile = NoBaselineFile
    /\ ignore_files \in IgnoreSets
    /\ baseline \in Dicts
    /\ current_state \in Dicts

CompareOnce ==
    /\ last.op = "__init__"
    /\ ~compare_raises(baseline, current_state, ignore_files)
    /\ changes' = compare(baseline, current_state, ignore_files)
    /\ last' = Outcome("check_changes", "None", "none", "n/a", TRUE)
    /\ UNCHANGED <<root, fs, bfile, ignore_files, scan, baseline, monitoring, pc,
                   update_baseline, current_state, fresh>>

SpecDiff == InitDiff /\ [][CompareOnce]_vars

-----------------------------------------------------------------------------
(* SpecStore: a mapping saved to the baseline file and loaded back *)

InitStore ==
    /\ monitoring = FALSE
    /\ pc = "idle"
    /\ update_baseline = FALSE
    /\ changes = NoChanges
    /\ current_state = EmptyDict
    /\ last = Constructed
    /\ fresh = "none"
    /\ scan = NoScan
    /\ root = "ok"
    /\ fs = NoFiles
    /\ bfile \in InitialBaselineFiles
    /\ ignore_files = init_ignore({})
    /\ baseline \in Dicts

\* Lines 200-201: the file holds the dump of self.baseline.
SaveOnce ==
    /\ last.op = "__init__"
    /\ bfile' = [bfile EXCEPT !.exists = TRUE, !.text = json_dump(baseline)]
    /\ last' = Outcome("json.dump", "None", "none", "n/a", FALSE)
    /\ UNCHANGED <<root, fs, ignore_files, scan, baseline, monitoring, pc,
                   update_baseline, current_state, changes, fresh>>

LoadOnce ==
    /\ last.op = "json.dump"
    /\ LET r == load_baseline(bfile, baseline)
       IN  /\ baseline' = r.baseline
           /\ last' = Outcome("load_baseline", IF r.ret THEN "True" ELSE "False", "none",
                              IF r.ret THEN "True" ELSE "False", FALSE)
    /\ UNCHANGED <<root, fs, bfile, ignore_files, scan, monitoring, pc,
                   update_baseline, current_state, changes, fresh>>

SpecStore == InitStore /\ [][SaveOnce \/ LoadOnce]_vars

-----------------------------------------------------------------------------
(* SpecWalk: scan_directory step by step, while another process removes    *)
(* files of the tree                                                       *)

\* The directory of a path, the root being <<>>.
dirname(path) == SubSeq(path, 1, Len(path) - 1)

\* One (root, dirs, files) of os.walk: the files that are in directory d when
\* it is listed.
listdir(d, files, b) ==
    SelectSeq(WalkOrder, LAMBDA p : dirname(p) = d /\ FileAt(files, b, p).exists)

\* dirs[:] of line 152 for the root: the subdirectories os.walk descends into.
walk_dirs ==
    SelectSeq(<<<<NameHidden>>, <<NameSub>>>>, LAMBDA d : walk_reaches(d \o <<NameT>>))

open_rb_always(f) == "none"

\* open(filepath, "rb") of line 84: the exception it raises, or "none".
open_rb(f) ==
    IF ~f.exists THEN "FileNotFoundError"
    ELSE IF f.mode = "denied" THEN "PermissionError"
    ELSE "none"

WalkTrees ==
    {t \in [FilePaths -> RichStates] :
        /\ t[PathA] \in {Present(1, "ok"), Present(1, "denied"),
                         Present(1, "ioerror"), Present(9, "ok")}
        /\ t[PathT] \in {Absent, Present(1, "ok")}
        /\ t[PathSubT] \in PlainStates
        /\ t[PathHiddenC] \in {Absent, Present(1, "ok")}
        /\ t[PathLog] = Present(1, "ok")}

InitWalk ==
    /\ InitObject
    /\ root \in RootStates
    /\ fs \in IF root \in {"ok", "denied"} THEN WalkTrees ELSE {NoFiles}
    /\ bfile \in {NoBaselineFile, ExistingBaselineFile}
    /\ ignore_files \in IgnoreSets

Scanning == {"sd_walk", "sd_file", "sd_stat", "sd_getsize", "sd_open", "sd_read"}

\* The file the loop of line 154 is at.
filepath == FileAt(fs, bfile, Head(scan.files))

\* Lines 132-147: the validation of the root; a failure is logged and the
\* empty files_data returned (lines 138-140).
SD_Start ==
    /\ pc = "idle" /\ last.op = "__init__"
    /\ IF validate_directory(root) # "none"
       THEN /\ current_state' = EmptyDict
            /\ pc' = "done"
            /\ last' = Outcome("scan_directory", "None", "none", "n/a", TRUE)
            /\ scan' = scan
       ELSE /\ pc' = "sd_walk"
            /\ last' = Outcome("scan_directory", "running", "none", "n/a", TRUE)
            /\ scan' = [scan EXCEPT !.dirs = <<<<>>>>]
            /\ current_state' = current_state
    /\ UNCHANGED <<root, fs, bfile, ignore_files, baseline, monitoring,
                   update_baseline, changes, fresh>>

\* Lines 150-152: os.walk lists the next directory.
SD_Walk ==
    /\ pc = "sd_walk" /\ scan.dirs # <<>>
    /\ LET d == Head(scan.dirs)
       IN  scan' = [scan EXCEPT !.files = listdir(d, fs, bfile),
                                !.dirs = IF d = <<>> THEN walk_dirs ELSE Tail(@)]
    /\ pc' = "sd_file"
    /\ UNCHANGED <<root, fs, bfile, ignore_files, baseline, monitoring,
                   update_baseline, current_state, changes, last, fresh>>

\* Line 186: os.walk is exhausted, files_data is returned.
SD_Return ==
    /\ pc = "sd_walk" /\ scan.dirs = <<>>
    /\ current_state' = scan.files_data
    /\ pc' = "done"
    /\ last' = Outcome("scan_directory", "None", "none", "n/a", TRUE)
    /\ UNCHANGED <<root, fs, bfile, ignore_files, baseline, monitoring,
                   update_baseline, changes, fresh, scan>>

\* Lines 154-161: the next filename of the listing, and the test of line 157.
SD_File ==
    /\ pc = "sd_file"
    /\ IF scan.files = <<>>
       THEN pc' = "sd_walk" /\ scan' = scan
       ELSE IF skip_file(basename(Head(scan.files)), BaselineName, ignore_files)
       THEN pc' = "sd_file" /\ scan' = [scan EXCEPT !.files = Tail(@)]
       ELSE pc' = "sd_stat" /\ scan' = scan
    /\ UNCHANGED <<root, fs, bfile, ignore_files, baseline, monitoring,
                   update_baseline, current_state, changes, last, fresh>>

\* get_file_info returned None, or raised into the handler of lines 172-175:
\* error_count += 1, and the loop goes to the next filename.
skipped(s) == [s EXCEPT !.files = Tail(@), !.stat_info = NoStat, !.f = Absent]

\* Line 107: os.stat; FileNotFoundError is caught at lines 116-118.
SD_Stat ==
    /\ pc = "sd_stat"
    /\ LET stat_info == os_stat(filepath)
       IN  IF stat_info.exc # "none"
           THEN pc' = "sd_file" /\ scan' = skipped(scan)
           ELSE pc' = "sd_getsize" /\ scan' = [scan EXCEPT !.stat_info = stat_info]
    /\ UNCHANGED <<root, fs, bfile, ignore_files, baseline, monitoring,
                   update_baseline, current_state, changes, last, fresh>>

\* Lines 77-82: os.path.getsize and the size limit; FileNotFoundError is
\* caught at lines 94-96.
SD_GetSize ==
    /\ pc = "sd_getsize"
    /\ LET called == [scan EXCEPT !.hashed = @ \cup {Head(scan.files)}]
       IN  IF ~filepath.exists \/ SizeOf(filepath.content) > max_file_size
           THEN pc' = "sd_file" /\ scan' = skipped(called)
           ELSE pc' = "sd_open" /\ scan' = called
    /\ UNCHANGED <<root, fs, bfile, ignore_files, baseline, monitoring,
                   update_baseline, current_state, changes, last, fresh>>

\* Line 84: the file is opened; PermissionError and FileNotFoundError are
\* caught at lines 91-96.
SD_Open ==
    /\ pc = "sd_open"
    /\ IF open_rb(filepath) # "none"
       THEN pc' = "sd_file" /\ scan' = skipped(scan)
       ELSE pc' = "sd_read" /\ scan' = [scan EXCEPT !.f = filepath]
    /\ UNCHANGED <<root, fs, bfile, ignore_files, baseline, monitoring,
                   update_baseline, current_state, changes, last, fresh>>

\* Lines 86-89, 110-117 and 164-165: the blocks are read from the open file,
\* which still yields them when its name has been removed, and the record is
\* stored; IOError is caught at lines 97-99.
SD_Read ==
    /\ pc = "sd_read"
    /\ IF scan.f.mode = "ioerror"
       THEN scan' = skipped(scan)
       ELSE LET file_info == [hash |-> sha256(scan.f.content),
                              size |-> scan.stat_info.st_size,
                              modified |-> scan.stat_info.st_mtime,
                              created |-> scan.stat_info.st_ctime]
            IN  scan' = skipped([scan EXCEPT !.files_data =
                                    DictSet(@, Entry(Head(scan.files), file_info))])
    /\ pc' = "sd_file"
    /\ UNCHANGED <<root, fs, bfile, ignore_files, baseline, monitoring,
                   update_baseline, current_state, changes, last, fresh>>

\* Where the scan is with path p when p is removed: not yet listed or done
\* with ("other"), listed and not yet passed to os.stat ("listed"), between
\* os.stat and getsize ("stat"), between getsize and open ("size"), open
\* ("open").
point(p) ==
    IF \A i \in 1..Len(scan.files) : scan.files[i] # p THEN "other"
    ELSE IF Head(scan.files) # p THEN "listed"
    ELSE CASE pc = "sd_getsize" -> "stat"
           [] pc = "sd_open" -> "size"
           [] pc = "sd_read" -> "open"
           [] OTHER -> "listed"

\* Another process removes a file while the scan runs.
ConcurrentDelete(p) ==
    /\ pc \in Scanning
    /\ fs[p].exists
    /\ fs' = [fs EXCEPT ![p] = Absent]
    /\ scan' = [scan EXCEPT !.gone[p] = point(p), !.unlinked[p] = fs[p]]
    /\ UNCHANGED <<root, bfile, ignore_files, baseline, monitoring, pc,
                   update_baseline, current_state, changes, last, fresh>>

ScanDirectory ==
    SD_Start \/ SD_Walk \/ SD_Return \/ SD_File \/ SD_Stat \/ SD_GetSize \/ SD_Open \/ SD_Read

NextWalk ==
    \/ ScanDirectory
    \/ \E p \in FilePaths : ConcurrentDelete(p)

SpecWalk == InitWalk /\ [][NextWalk]_vars

-----------------------------------------------------------------------------
(* Spec: runs of main, each constructing a FileIntegrityMonitor and calling *)
(* one operation on it, with the tree and the baseline file they share     *)

MainPaths == {PathA, PathSubT, PathHiddenC, PathLog}
\* The files other processes change; fim.log is written by the logger only.
EnvPaths == {PathA, PathSubT, PathHiddenC}
InitialTree ==
    [p \in FilePaths |-> IF p \in MainPaths THEN Present(1, "ok") ELSE Absent]

\* The handlers of the module-level logger append to fim.log (lines 12-19),
\* which lies in the monitored root here.
log_write(files) ==
    [files EXCEPT ![PathLog] =
        Present(IF @.exists /\ @.content = 1 THEN 2 ELSE 1, "ok")]

\* The files the scanner is meant to record: below no hidden directory, not
\* hidden themselves, not the baseline file, not ignored.
Monitored(path, I) ==
    /\ \A i \in 1..Len(path) : path[i][1] # DOT
    /\ path[Len(path)] \notin I
    /\ path[Len(path)] # BaselineName

Init ==
    /\ InitObject
    /\ root = "ok"
    /\ fs = InitialTree
    /\ bfile \in InitialBaselineFiles
    /\ ignore_files \in IgnoreSets

\* Where the steps of other processes are interleaved: between two runs,
\* between two cycles of the loop, and between the write of the baseline
\* file and its re-read.  A step of another process at any other point
\* commutes with the steps of the operation up to one of these.
HoldsOpen == {"cb_dump", "mr_dump"}
EnvPoints == {"idle", "mr_loop", "cb_verify"}
TamperPoints == {"idle", "cb_verify"}

(* The environment: other processes changing the tree and the baseline file *)

EnvWrite(p, c) ==
    /\ pc \in EnvPoints
    /\ fs[p] # Present(c, "ok")
    /\ fs' = [fs EXCEPT ![p] = Present(c, "ok")]
    /\ fresh' = IF Monitored(p, ignore_files) THEN "none" ELSE fresh
    /\ UNCHANGED <<root, bfile, ignore_files, scan, baseline, monitoring, pc,
                   update_baseline, current_state, changes, last>>

EnvDelete(p) ==
    /\ pc \in EnvPoints
    /\ fs[p].exists
    /\ fs' = [fs EXCEPT ![p] = Absent]
    /\ fresh' = IF Monitored(p, ignore_files) THEN "none" ELSE fresh
    /\ UNCHANGED <<root, bfile, ignore_files, scan, baseline, monitoring, pc,
                   update_baseline, current_state, changes, last>>

\* Another process replaces or removes the baseline file (not while this
\* object holds it open for writing).
EnvTamper(f) ==
    /\ pc \in TamperPoints
    /\ f # bfile
    /\ bfile' = f
    /\ fresh' = "none"
    /\ UNCHANGED <<root, fs, ignore_files, scan, baseline, monitoring, pc,
                   update_baseline, current_state, changes, last>>

EnvChmod(perm) ==
    /\ pc \in TamperPoints
    /\ bfile.exists
    /\ <<bfile.readable, bfile.writable>> # perm
    /\ bfile' = [bfile EXCEPT !.readable = perm[1], !.writable = perm[2]]
    /\ fresh' = "none"
    /\ UNCHANGED <<root, fs, ignore_files, scan, baseline, monitoring, pc,
                   update_baseline, current_state, changes, last>>

EnvRoot(r) ==
    /\ pc \in EnvPoints
    /\ r # root
    /\ root' = r
    /\ fresh' = "none"
    /\ UNCHANGED <<fs, bfile, ignore_files, scan, baseline, monitoring, pc,
                   update_baseline, current_state, changes, last>>

(* create_baseline *)

create_baseline_except_inner(exc) ==
    CASE exc \in {"IOError", "JSONDecodeError"} -> "False"
      [] exc = "KeyboardInterrupt" -> "False"
      [] OTHER -> "raised"

\* The except clauses of create_baseline (lines 215-231): what it returns
\* when exc is raised inside it.
create_baseline_except(exc) ==
    CASE exc \in {"IOError", "JSONDecodeError"} -> "False"
      [] exc = "KeyboardInterrupt" -> "False"
      [] OTHER -> "False"

verify_baseline_nocount(b, base) ==
    IF ~b.exists \/ ~b.readable THEN "IOError"
    ELSE IF json_load(b.text).exc # "none" THEN "JSONDecodeError"
    ELSE "none"

\* Lines 204-208: the exception of the re-read, or "none".
verify_baseline(b, base) ==
    IF ~b.exists \/ ~b.readable THEN "IOError"
    ELSE IF json_load(b.text).exc # "none" THEN "JSONDecodeError"
    ELSE IF PyLen(json_load(b.text).value) # PyLen(base) THEN "ValueError"
    ELSE "none"

Returned(op, exc) == Outcome(op, create_baseline_except(exc), exc, "n/a", FALSE)

CB_Scan_saving_empty ==
    /\ pc = "idle"
    /\ LET s == scan_directory(root, fs, bfile, ignore_files)
       IN  /\ baseline' = s
           /\ current_state' = s
           /\ pc' = "cb_open"
           /\ last' = Outcome("create_baseline", "running", "none", "n/a", TRUE)
           /\ fs' = fs
           /\ fresh' = "scanned"
    /\ UNCHANGED <<root, bfile, ignore_files, scan, monitoring, update_baseline, changes>>

\* Lines 192-196: the scan; nothing is saved when it found no file.
CB_Scan ==
    /\ pc = "idle"
    /\ LET s == scan_directory(root, fs, bfile, ignore_files)
       IN  /\ baseline' = s
           /\ current_state' = s
           /\ IF PyLen(s) = 0
              THEN /\ pc' = "done"
                   /\ last' = Outcome("create_baseline", "False", "none", "n/a", TRUE)
                   /\ fs' = log_write(fs)
                   /\ fresh' = "none"
              ELSE /\ pc' = "cb_open"
                   /\ last' = Outcome("create_baseline", "running", "none", "n/a", TRUE)
                   /\ fs' = fs
                   /\ fresh' = "scanned"
    /\ UNCHANGED <<root, bfile, ignore_files, scan, monitoring, update_baseline, changes>>

\* KeyboardInterrupt during the scan (lines 177-179, 224-227).
CB_ScanInterrupted ==
    /\ pc = "idle"
    /\ pc' = "done"
    /\ last' = Returned("create_baseline", "KeyboardInterrupt")
    /\ fs' = log_write(fs)
    /\ UNCHANGED <<root, bfile, ignore_files, scan, baseline, monitoring,
                   update_baseline, current_state, changes, fresh>>

\* Line 200: open(self.baseline_file, 'w') empties the file.
CB_Open ==
    /\ pc = "cb_open"
    /\ ~bfile.exists \/ bfile.writable
    /\ bfile' = [bfile EXCEPT !.exists = TRUE, !.text = Truncated]
    /\ pc' = "cb_dump"
    /\ fresh' = IF fresh = "scanned" THEN fresh ELSE "none"
    /\ UNCHANGED <<root, fs, ignore_files, scan, baseline, monitoring,
                   update_baseline, current_state, changes, last>>

CB_OpenFails ==
    /\ pc = "cb_open"
    /\ bfile.exists /\ ~bfile.writable
    /\ pc' = "done"
    /\ last' = Returned("create_baseline", "IOError")
    /\ fs' = log_write(fs)
    /\ fresh' = "none"
    /\ UNCHANGED <<root, bfile, ignore_files, scan, baseline, monitoring,
                   update_baseline, current_state, changes>>

\* Line 201: json.dump has written the whole mapping.
CB_Dump ==
    /\ pc = "cb_dump"
    /\ bfile' = [bfile EXCEPT !.text = json_dump(baseline)]
    /\ pc' = "cb_verify"
    /\ UNCHANGED <<root, fs, ignore_files, scan, baseline, monitoring,
                   update_baseline, current_state, changes, last, fresh>>

\* Line 201 raising IOError part-way (the device is full).
CB_DumpFails ==
    /\ pc = "cb_dump"
    /\ pc' = "done"
    /\ last' = Returned("create_baseline", "IOError")
    /\ fs' = log_write(fs)
    /\ fresh' = "none"
    /\ UNCHANGED <<root, bfile, ignore_files, scan, baseline, monitoring,
                   update_baseline, current_state, changes>>

\* Lines 204-222: the re-read and the comparison of the counts.
CB_Verify ==
    /\ pc = "cb_verify"
    /\ LET exc == verify_baseline(bfile, baseline)
       IN  /\ last' = IF exc = "none"
                      THEN Outcome("create_baseline", "True", "none", "n/a", FALSE)
                      ELSE Returned("create_baseline", exc)
           /\ fresh' = IF exc = "none" /\ fresh = "scanned" THEN "saved" ELSE "none"
    /\ pc' = "done"
    /\ fs' = log_write(fs)
    /\ UNCHANGED <<root, bfile, ignore_files, scan, baseline, monitoring,
                   update_baseline, current_state, changes>>

\* KeyboardInterrupt after the scan (lines 224-227).
CB_Interrupt ==
    /\ pc \in {"cb_open", "cb_dump", "cb_verify"}
    /\ pc' = "done"
    /\ last' = Returned("create_baseline", "KeyboardInterrupt")
    /\ fs' = log_write(fs)
    /\ fresh' = "none"
    /\ UNCHANGED <<root, bfile, ignore_files, scan, baseline, monitoring,
                   update_baseline, current_state, changes>>

(* monitor_once *)

MonitorOnce_saving ==
    /\ pc = "idle"
    /\ LET l == load_baseline(bfile, baseline)
           r == check_changes(root, fs, bfile, ignore_files, l.baseline)
       IN  /\ baseline' = IF l.ret THEN r.current_state ELSE l.baseline
           /\ bfile' = IF l.ret /\ generate_alert(r.changes)
                       THEN [bfile EXCEPT !.text = json_dump(r.current_state)]
                       ELSE bfile
           /\ changes' = IF l.ret THEN r.changes ELSE changes
           /\ current_state' = IF l.ret THEN r.current_state ELSE current_state
           /\ last' = Outcome("monitor_once", "None", "none",
                              IF l.ret THEN "True" ELSE "False", l.ret)
    /\ pc' = "done"
    /\ fs' = log_write(fs)
    /\ UNCHANGED <<root, ignore_files, scan, monitoring, update_baseline, fresh>>

\* monitor_once, lines 432-446.
MonitorOnce ==
    /\ pc = "idle"
    /\ LET l == load_baseline(bfile, baseline)
           r == check_changes(root, fs, bfile, ignore_files, l.baseline)
       IN  /\ baseline' = l.baseline
           /\ changes' = IF l.ret THEN r.changes ELSE changes
           /\ current_state' = IF l.ret THEN r.current_state ELSE current_state
           /\ last' = Outcome("monitor_once", "None", "none",
                              IF l.ret THEN "True" ELSE "False", l.ret)
    /\ pc' = "done"
    /\ fs' = log_write(fs)
    /\ UNCHANGED <<root, bfile, ignore_files, scan, monitoring, update_baseline, fresh>>

\* KeyboardInterrupt inside monitor_once, which does not catch it: before
\* or after load_baseline has assigned self.baseline.
MonitorOnceInterrupted ==
    /\ pc = "idle"
    /\ baseline' \in {baseline, load_baseline(bfile, baseline).baseline}
    /\ pc' = "done"
    /\ last' = Outcome("monitor_once", "raised", "KeyboardInterrupt", "n/a", FALSE)
    /\ UNCHANGED <<root, fs, bfile, ignore_files, scan, monitoring,
                   update_baseline, current_state, changes, fresh>>

(* monitor_realtime *)

next_baseline_always(update, ch, cur, base) ==
    IF generate_alert(ch) THEN cur ELSE base

\* Lines 397-400: self.baseline after the comparison of one cycle.
next_baseline(update, ch, cur, base) ==
    IF generate_alert(ch) /\ update THEN cur ELSE base

\* Lines 367-389: the baseline is loaded, or monitor_realtime returns.
MR_Start(update) ==
    /\ pc = "idle"
    /\ LET l == load_baseline(bfile, baseline)
       IN  /\ baseline' = l.baseline
           /\ IF l.ret
              THEN /\ monitoring' = TRUE
                   /\ update_baseline' = update
                   /\ pc' = "mr_loop"
                   /\ last' = Outcome("monitor_realtime", "running", "none", "True", FALSE)
              ELSE /\ UNCHANGED <<monitoring, update_baseline>>
                   /\ pc' = "done"
                   /\ last' = Outcome("monitor_realtime", "None", "none", "False", FALSE)
    /\ fs' = log_write(fs)
    /\ UNCHANGED <<root, bfile, ignore_files, scan, current_state, changes, fresh>>

\* Lines 393-400 and 409-412: one check, then the sleep unless the baseline
\* is to be written.
MR_Cycle ==
    /\ pc = "mr_loop"
    /\ LET r == check_changes(root, fs, bfile, ignore_files, baseline)
       IN  /\ changes' = r.changes
           /\ current_state' = r.current_state
           /\ baseline' = next_baseline(update_baseline, r.changes, r.current_state, baseline)
           /\ pc' = IF generate_alert(r.changes) /\ update_baseline THEN "mr_open" ELSE "mr_sleep"
           /\ fs' = IF generate_alert(r.changes) THEN log_write(fs) ELSE fs
    /\ last' = Outcome("monitor_realtime", "running", "none", "True", TRUE)
    /\ UNCHANGED <<root, bfile, ignore_files, scan, monitoring, update_baseline, fresh>>

\* Line 402.
MR_Open ==
    /\ pc = "mr_open"
    /\ ~bfile.exists \/ bfile.writable
    /\ bfile' = [bfile EXCEPT !.exists = TRUE, !.text = Truncated]
    /\ pc' = "mr_dump"
    /\ fresh' = "none"
    /\ UNCHANGED <<root, fs, ignore_files, scan, baseline, monitoring,
                   update_baseline, current_state, changes, last>>

\* Line 402 raising, caught at line 406.
MR_OpenFails ==
    /\ pc = "mr_open"
    /\ bfile.exists /\ ~bfile.writable
    /\ pc' = "mr_sleep"
    /\ last' = Outcome("monitor_realtime", "running", "IOError", "True", TRUE)
    /\ fs' = log_write(fs)
    /\ UNCHANGED <<root, bfile, ignore_files, scan, baseline, monitoring,
                   update_baseline, current_state, changes, fresh>>

\* Lines 403-405.
MR_Dump ==
    /\ pc = "mr_dump"
    /\ bfile' = [bfile EXCEPT !.text = json_dump(baseline)]
    /\ pc' = "mr_sleep"
    /\ fs' = log_write(fs)
    /\ UNCHANGED <<root, ignore_files, scan, baseline, monitoring,
                   update_baseline, current_state, changes, last, fresh>>

\* Line 403 raising IOError part-way, caught at line 406.
MR_DumpFails ==
    /\ pc = "mr_dump"
    /\ pc' = "mr_sleep"
    /\ last' = Outcome("monitor_realtime", "running", "IOError", "True", TRUE)
    /\ fs' = log_write(fs)
    /\ UNCHANGED <<root, bfile, ignore_files, scan, baseline, monitoring,
                   update_baseline, current_state, changes, fresh>>

\* KeyboardInterrupt in the loop (lines 414-415, 422-426).
MR_Interrupt ==
    /\ pc \in {"mr_loop", "mr_open", "mr_dump", "mr_sleep"}
    /\ pc' = "done"
    /\ update_baseline' = FALSE
    /\ last' = Outcome("monitor_realtime", "None", "KeyboardInterrupt", "True", FALSE)
    /\ fs' = log_write(fs)
    /\ UNCHANGED <<root, bfile, ignore_files, scan, baseline, monitoring,
                   current_state, changes, fresh>>

\* Line 412: the sleep between two cycles; changes and current_state are
\* locals of the cycle that has ended.
MR_Sleep ==
    /\ pc = "mr_sleep"
    /\ pc' = "mr_loop"
    /\ changes' = NoChanges
    /\ current_state' = EmptyDict
    /\ last' = Outcome("monitor_realtime", "running", "none", "True", FALSE)
    /\ UNCHANGED <<root, fs, bfile, ignore_files, scan, baseline, monitoring,
                   update_baseline, fresh>>

\* main, lines 518-539: the process ends with the operation; the next run
\* constructs a new object (lines 23-30), with the same arguments.
MainExit ==
    /\ pc = "done"
    /\ baseline' = EmptyDict
    /\ monitoring' = FALSE
    /\ pc' = "idle"
    /\ update_baseline' = FALSE
    /\ current_state' = EmptyDict
    /\ changes' = NoChanges
    /\ last' = Constructed
    /\ fs' = log_write(fs)
    /\ UNCHANGED <<root, bfile, ignore_files, scan, fresh>>

Environment ==
    \/ \E p \in EnvPaths, c \in SmallContents : EnvWrite(p, c)
    \/ \E p \in EnvPaths : EnvDelete(p)
    \/ \E f \in TamperedFiles : EnvTamper(f)
    \/ \E perm \in Permissions : EnvChmod(perm)
    \/ \E r \in {"ok", "denied"} : EnvRoot(r)

CreateBaseline ==
    \/ CB_Scan \/ CB_ScanInterrupted \/ CB_Open \/ CB_OpenFails
    \/ CB_Dump \/ CB_DumpFails \/ CB_Verify \/ CB_Interrupt

MonitorRealtime ==
    \/ \E update \in BOOLEAN : MR_Start(update)
    \/ MR_Cycle \/ MR_Open \/ MR_OpenFails \/ MR_Dump \/ MR_DumpFails
    \/ MR_Sleep \/ MR_Interrupt

Next ==
    \/ Environment
    \/ CreateBaseline
    \/ MonitorOnce \/ MonitorOnceInterrupted
    \/ MonitorRealtime
    \/ MainExit

Spec == Init /\ [][Next]_vars

-----------------------------------------------------------------------------
(* Properties of the pure functions *)

SeqToSet(s) == {s[i] : i \in 1..Len(s)}
FilesOf(s) == {s[i].file : i \in 1..Len(s)}
HashIn(d, k) == d.items[CHOOSE i \in 1..Len(d.items) : d.items[i].key = k].info.hash
SizeIn(d, k) == d.items[CHOOSE i \in 1..Len(d.items) : d.items[i].key = k].info.size

ExpectedModified(B, C, I) ==
    {k \in Keys(B) \cap Keys(C) : basename(k) \notin I /\ HashIn(B, k) # HashIn(C, k)}
ExpectedDeleted(B, C, I) == {k \in Keys(B) \ Keys(C) : basename(k) \notin I}
ExpectedAdded(B, C) == Keys(C) \ Keys(B)

\* C1: the comparison puts a path in 'modified' iff it is in the baseline and
\* in the scan, its basename is not ignored and the hashes differ (with the
\* baseline's hash and size as old, the scan's as new), in 'deleted' iff it is
\* in the baseline only and not ignored, in 'added' iff it is in the scan
\* only; no path is in two sequences or twice in one.
C1_Classification ==
    last.op = "check_changes" =>
        LET B == baseline
            C == current_state
            I == ignore_files
        IN  /\ FilesOf(changes.modified) = ExpectedModified(B, C, I)
            /\ Len(changes.modified) = Cardinality(ExpectedModified(B, C, I))
            /\ \A i \in 1..Len(changes.modified) :
                  LET m == changes.modified[i]
                  IN  /\ m.old_hash = HashIn(B, m.file) /\ m.new_hash = HashIn(C, m.file)
                      /\ m.old_size = SizeIn(B, m.file) /\ m.new_size = SizeIn(C, m.file)
            /\ SeqToSet(changes.deleted) = ExpectedDeleted(B, C, I)
            /\ Len(changes.deleted) = Cardinality(ExpectedDeleted(B, C, I))
            /\ FilesOf(changes.added) = ExpectedAdded(B, C)
            /\ Len(changes.added) = Cardinality(ExpectedAdded(B, C))
            /\ \A i \in 1..Len(changes.added) :
                  LET a == changes.added[i]
                  IN  a.hash = HashIn(C, a.file) /\ a.size = SizeIn(C, a.file)
            /\ FilesOf(changes.modified) \cap SeqToSet(changes.deleted) = {}
            /\ FilesOf(changes.modified) \cap FilesOf(changes.added) = {}
            /\ FilesOf(changes.added) \cap SeqToSet(changes.deleted) = {}

\* A comparison that found one path of each kind.
C1_Witness ==
    /\ last.op = "check_changes"
    /\ Len(changes.modified) = 1
    /\ Len(changes.added) = 1
    /\ Len(changes.deleted) = 1
    /\ changes.modified[1].old_size # changes.modified[1].new_size

\* A comparison that passed over a baseline path with an ignored basename.
C1_WitnessIgnored ==
    /\ last.op = "check_changes"
    /\ \E k \in Keys(baseline) : basename(k) \in ignore_files /\ k \notin Keys(current_state)
    /\ Len(changes.modified) = 1

SameMapping(d1, d2) ==
    /\ d1.isdict /\ d2.isdict
    /\ Keys(d1) = Keys(d2)
    /\ Len(d1.items) = Len(d2.items)
    /\ \A k \in Keys(d1) :
          LET i1 == d1.items[CHOOSE i \in 1..Len(d1.items) : d1.items[i].key = k].info
              i2 == d2.items[CHOOSE i \in 1..Len(d2.items) : d2.items[i].key = k].info
          IN  /\ DOMAIN i1 = RequiredKeys /\ DOMAIN i2 = RequiredKeys
              /\ \A n \in RequiredKeys : i1[n] = i2[n]

\* C9: loading the file that a mapping B was saved to succeeds and leaves in
\* self.baseline a mapping with the keys of B and, for each key, the hash,
\* size, modified and created values of B.
C9_RoundTrip ==
    [][LoadOnce => (last'.loaded = "True" /\ SameMapping(baseline', baseline))]_vars

\* A mapping of two records of different sizes has been saved and loaded.
C9_Witness ==
    /\ last.op = "load_baseline"
    /\ last.loaded = "True"
    /\ Len(baseline.items) = 2
    /\ baseline.items[1].info.size # baseline.items[2].info.size
    /\ bfile.exists /\ Len(bfile.text.members) = 2

HashFails(f) ==
    \/ f.mode \in {"denied", "ioerror"}
    \/ SizeOf(f.content) > max_file_size

\* C10: every record of a scan result has a hash, the digest of the file; a
\* file whose hashing fails (permission denied, I/O error, larger than the
\* limit) is left out, and every other monitored file of the tree is in the
\* result.
C10_ScanBestEffort ==
    (last.op = "scan_directory" /\ root = "ok") =>
        /\ \A i \in 1..Len(current_state.items) :
              /\ current_state.items[i].info.hash # NoHash
              /\ current_state.items[i].info.hash = sha256(fs[current_state.items[i].key].content)
        /\ \A p \in FilePaths :
              (fs[p].exists /\ Monitored(p, ignore_files)) =>
                  (p \in Keys(current_state) <=> ~HashFails(fs[p]))
        /\ \A p \in FilePaths : ~fs[p].exists => p \notin Keys(current_state)

\* A scan in which one file was unreadable, one was above the size limit
\* and a third one was recorded.
C10_Witness ==
    /\ last.op = "scan_directory" /\ root = "ok"
    /\ fs[PathA].exists /\ fs[PathA].mode = "denied"
    /\ fs[PathSubT] = Present(9, "ok")
    /\ NameT \notin ignore_files
    /\ fs[PathT].exists
    /\ Keys(current_state) = {PathT}

-----------------------------------------------------------------------------
(* Properties of the operations, under Spec *)

Checked == last.op \in {"monitor_once", "monitor_realtime"} /\ last.scanned

\* C2: when create_baseline has saved its scan of the tree and no monitored
\* file has changed since that scan, a check of the tree finds no change,
\* although the baseline file and fim.log lie in the tree and were written
\* after the scan.
C2_UnchangedTreeNoChanges ==
    (Checked /\ fresh = "saved") => changes = NoChanges

\* A check that found nothing, of a tree that holds the saved baseline file
\* and the log file next to the recorded files.
C2_Witness ==
    /\ last.op = "monitor_once" /\ last.scanned /\ fresh = "saved"
    /\ changes = NoChanges
    /\ PyLen(current_state) = 2
    /\ bfile.exists /\ bfile.text = json_dump(current_state)
    /\ fs[PathLog].exists

Unmonitored(path, I) ==
    \/ path[Len(path)] \in I
    \/ \E i \in 1..(Len(path) - 1) : path[i][1] = DOT
Reported(ch) == FilesOf(ch.modified) \cup FilesOf(ch.added) \cup SeqToSet(ch.deleted)

\* C3: a file whose basename is in the ignore set (fim.log always is), or
\* which lies below a directory whose name starts with a dot, is no key of a
\* scan result and in no sequence of a Changeset, whatever was done to it.
C3_IgnoredNeverReported ==
    /\ LogName \in ignore_files
    /\ \A p \in FilePaths :
          Unmonitored(p, ignore_files) =>
              p \notin Keys(current_state) /\ p \notin Reported(changes)

\* A check that reported a change while an ignored file that the baseline
\* records and a file of a hidden directory both had new contents.
C3_Witness ==
    /\ Checked
    /\ NameT \in ignore_files
    /\ PathSubT \in Keys(baseline)
    /\ fs[PathSubT] = Present(2, "ok")
    /\ fs[PathHiddenC] = Present(2, "ok")
    /\ Len(changes.modified) = 1

\* C4: no step of monitor_once changes the baseline file, whatever the
\* outcome of its load, scan and comparison.
C4_MonitorOnceReadsOnly ==
    [][(MonitorOnce \/ MonitorOnceInterrupted) => bfile' = bfile]_vars

\* monitor_once has reported changes against a baseline file that is still
\* the one it loaded.
C4_Witness ==
    /\ last.op = "monitor_once" /\ last.scanned
    /\ generate_alert(changes)
    /\ bfile = File(OldBaselineText)
    /\ PyLen(baseline) = 2

Interrupted == CB_ScanInterrupted \/ CB_Interrupt \/ MR_Interrupt

\* C5: an interruption of create_baseline or of the monitor loop never leaves
\* the baseline file partially written: it does not end the operation while
\* the file has been emptied by open(..., 'w') and json.dump has not
\* finished writing it.
C5_NoPartialWrite ==
    [][Interrupted => ~(pc \in HoldsOpen /\ bfile'.text.kind = "truncated")]_vars

\* The part of C5 that holds: an interruption during the scan leaves the
\* baseline file as it was.
C5_ScanInterruptKeepsFile ==
    [][CB_ScanInterrupted => bfile' = bfile]_vars

MonitorLoop ==
    \/ MR_Cycle \/ MR_Open \/ MR_OpenFails \/ MR_Dump \/ MR_DumpFails
    \/ MR_Sleep \/ MR_Interrupt

\* The baseline changes only in a cycle with changes and auto-update, and
\* self.baseline becomes the mapping of that cycle's scan.
OnlyOnAlertWithUpdate ==
    /\ baseline' # baseline =>
          /\ pc = "mr_loop" /\ update_baseline
          /\ generate_alert(changes')
          /\ baseline' = current_state'
          /\ current_state' = scan_directory(root, fs, bfile, ignore_files)
    /\ bfile' # bfile =>
          /\ update_baseline /\ generate_alert(changes)
          /\ baseline = current_state
    /\ ~update_baseline => (baseline' = baseline /\ bfile' = bfile)

\* C6 as stated: the baseline, in memory and persisted, changes only in a
\* cycle with a non-empty Changeset and auto-update, and that cycle ends with
\* both replaced by exactly the mapping of its scan.
C6_Original ==
    [][MonitorLoop =>
        /\ OnlyOnAlertWithUpdate
        /\ (pc \in {"mr_open", "mr_dump"} /\ pc' = "mr_sleep") =>
              /\ baseline' = current_state
              /\ bfile'.exists /\ bfile'.text = json_dump(current_state)]_vars

\* C6 as amended: the baseline changes only in a cycle with a non-empty
\* Changeset and auto-update; self.baseline is then replaced by exactly the
\* mapping of that cycle's scan, and the baseline file holds exactly that
\* mapping once the write has completed; a write that fails or is
\* interrupted leaves the file as it was or emptied.
C6_WholesaleUpdate ==
    [][MonitorLoop =>
        /\ OnlyOnAlertWithUpdate
        /\ bfile' # bfile =>
              \/ bfile' = [bfile EXCEPT !.exists = TRUE, !.text = Truncated]
              \/ bfile' = [bfile EXCEPT !.text = json_dump(current_state)]
        /\ MR_Dump =>
              /\ bfile'.text = json_dump(current_state)
              /\ SameMapping(json_load(bfile'.text).value, current_state)
        /\ (pc \in {"mr_open", "mr_dump"} /\ pc' = "mr_sleep") => baseline' = current_state]_vars

\* A cycle with auto-update has replaced a baseline of two records by the
\* one record its scan found, in memory and in the file.
C6_Witness ==
    /\ pc = "mr_sleep" /\ update_baseline
    /\ generate_alert(changes) /\ Len(changes.deleted) = 1
    /\ PyLen(baseline) = 1 /\ baseline = current_state
    /\ bfile.text = json_dump(baseline)

Loadable(b) ==
    /\ b.exists /\ b.readable
    /\ b.text.kind = "object"
    /\ \A i \in 1..Len(b.text.members) :
          /\ b.text.members[i].isobj
          /\ RequiredKeys \subseteq
                {b.text.members[i].fields[j].name : j \in 1..Len(b.text.members[i].fields)}

\* C7: load_baseline succeeds only if the baseline file exists, is readable,
\* parses to a mapping, and every value is a mapping with hash, size,
\* modified and created; when it fails, monitor_once and monitor_realtime
\* return without a scan, a comparison or a Changeset, and the loop runs
\* only after a successful load.
C7_LoadValidates ==
    [][/\ (MonitorOnce \/ \E update \in BOOLEAN : MR_Start(update)) =>
            /\ last'.loaded = "True" => Loadable(bfile)
            /\ last'.loaded # "True" =>
                  /\ ~last'.scanned
                  /\ changes' = changes /\ current_state' = current_state
                  /\ pc' = "done"
       /\ MR_Cycle => last.loaded = "True"]_vars

\* monitor_once has refused a baseline file with an entry without 'size'.
C7_Witness ==
    /\ last.op = "monitor_once"
    /\ last.loaded = "False" /\ ~last.scanned
    /\ bfile = File(MissingSizeText)
    /\ pc = "done"

RereadFails(b) == ~b.exists \/ ~b.readable \/ b.text.kind \notin {"object", "array"}
RereadCount(b) == PyLen(json_load(b.text).value)

\* C8: create_baseline returns True only from the re-read of the written
\* file, when it parsed and held as many records as self.baseline; when the
\* write fails, the re-read fails or the counts differ it returns False,
\* no exception leaves it, and self.baseline is the scanned mapping.
C8_VerifiedSave ==
    [][CreateBaseline =>
        /\ last'.ret # "raised"
        /\ last'.ret = "True" =>
              /\ pc = "cb_verify"
              /\ ~RereadFails(bfile)
              /\ RereadCount(bfile) = PyLen(baseline)
        /\ (\/ pc = "cb_open" /\ bfile.exists /\ ~bfile.writable
            \/ CB_DumpFails
            \/ pc = "cb_verify" /\ RereadFails(bfile)
            \/ pc = "cb_verify" /\ ~RereadFails(bfile) /\ RereadCount(bfile) # PyLen(baseline)) =>
              /\ last'.ret = "False" /\ pc' = "done"
              /\ baseline' = baseline /\ baseline = current_state /\ PyLen(baseline) > 0
        /\ CB_Scan => baseline' = scan_directory(root, fs, bfile, ignore_files)]_vars

\* create_baseline has returned False because the file it re-read held
\* another number of records than the two it had scanned.
C8_Witness ==
    /\ last.op = "create_baseline" /\ last.ret = "False" /\ last.exc = "ValueError"
    /\ pc = "done"
    /\ PyLen(baseline) = 2
    /\ bfile.exists /\ bfile.readable /\ RereadCount(bfile) = 1

-----------------------------------------------------------------------------
(* Properties of the scan that runs step by step, under SpecWalk *)

Scanned == pc = "done" /\ last.op = "scan_directory"
InFlight == {"listed", "stat", "size", "open"}
BeforeOpen == {"listed", "stat", "size"}

\* The files that are still there are recorded as a scan of them alone
\* would record them.
OthersRecorded ==
    \A p \in FilePaths :
        fs[p].exists =>
            (p \in Keys(current_state) <=>
                (walk_reaches(p) /\ Monitored(p, ignore_files) /\ ~HashFails(fs[p])))

\* C11 as stated: a file removed at any point between its listing and the
\* end of its hashing is not in the result, no exception leaves
\* scan_directory, and the remaining files are processed.
C11_Original ==
    (Scanned /\ root = "ok") =>
        /\ last.exc = "none"
        /\ \A p \in FilePaths : scan.gone[p] \in InFlight => p \notin Keys(current_state)
        /\ OthersRecorded

\* C11 as amended: a file removed between its listing and the open of line
\* 84 is not in the result; a file removed while it is open is read to its
\* end and recorded with the digest of what it held, unless the read fails;
\* in both cases no exception leaves scan_directory and the remaining files
\* are processed.
C11_SkippedBeforeOpen ==
    (Scanned /\ root = "ok") =>
        /\ last.exc = "none"
        /\ \A p \in FilePaths :
              /\ scan.gone[p] \in BeforeOpen => p \notin Keys(current_state)
              /\ scan.gone[p] = "open" =>
                    /\ p \in Keys(current_state) <=> scan.unlinked[p].mode = "ok"
                    /\ p \in Keys(current_state) =>
                          /\ HashIn(current_state, p) = sha256(scan.unlinked[p].content)
                          /\ SizeIn(current_state, p) = SizeOf(scan.unlinked[p].content)
        /\ OthersRecorded

\* A scan has ended in which one file was removed between os.stat and
\* getsize, another between getsize and open, and a third one, listed after
\* them, was recorded.
C11_Witness ==
    /\ Scanned /\ root = "ok"
    /\ scan.gone[PathA] = "stat"
    /\ scan.gone[PathT] = "size"
    /\ Keys(current_state) = {PathSubT}

\* A scan of a tree that no process touched gives what scan_directory gives
\* in one step.
WalkAgrees ==
    (Scanned /\ \A p \in FilePaths : scan.gone[p] = "no") =>
        current_state = scan_directory(root, fs, bfile, ignore_files)

\* C12: when the root does not exist, is no directory or cannot be listed,
\* scan_directory raises nothing, returns the empty mapping, lists no
\* directory and calls calculate_hash for no file.
C12_InvalidRootEmpty ==
    root # "ok" =>
        /\ pc \notin Scanning
        /\ scan.hashed = {} /\ scan.files = <<>> /\ scan.files_data = EmptyDict
        /\ Scanned => (current_state = EmptyDict /\ last.exc = "none")

\* scan_directory has returned the empty mapping for a root that cannot be
\* listed although files lie below it.
C12_Witness ==
    /\ Scanned /\ root = "denied"
    /\ fs[PathA] = Present(1, "ok") /\ fs[PathSubT].exists
    /\ current_state = EmptyDict
    /\ scan.hashed = {}

-----------------------------------------------------------------------------
(* Properties of create_baseline after an empty scan, under Spec *)

\* C13: when the scan of create_baseline yields no record (no file to
\* record, or a root that fails validation), create_baseline returns False
\* without opening the baseline file, which keeps its content; the file is
\* opened and written only with a mapping of at least one record.
C13_EmptyScanNotSaved ==
    [][/\ (CB_Scan /\ PyLen(scan_directory(root, fs, bfile, ignore_files)) = 0) =>
            /\ last'.ret = "False" /\ pc' = "done"
            /\ bfile' = bfile
       /\ (CB_Open \/ CB_Dump) => PyLen(baseline) > 0
       /\ CB_Dump => PyLen(json_load(bfile'.text).value) > 0]_vars

\* create_baseline has returned False for a tree in which only fim.log and
\* the baseline file of an earlier run are left, and that file is as it was.
C13_Witness ==
    /\ last.op = "create_baseline" /\ last.ret = "False" /\ last.scanned
    /\ pc = "done" /\ root = "ok"
    /\ fs[PathLog].exists /\ ~fs[PathA].exists /\ ~fs[PathSubT].exists
    /\ baseline = EmptyDict
    /\ bfile = File(OldBaselineText)

====
